---- MODULE Spec2Model ----
(***************************************************************************)
(* The OCR conversion pipeline of cookpdf (lib/ocr): module configuration, *)
(* the recognition-engine cache (workerCache), the font cache (fontCache), *)
(* and convertToSearchablePdf with its batched recognition loop; the page  *)
(* loop of buildSearchablePdf; and the network entry point POST /api/ocr   *)
(* (app/api/ocr/route.ts).                                                 *)
(*                                                                         *)
(* Numbers read from the environment may be fractional; they are kept in   *)
(* half units (a value v stands for v/2), so "2.5" is 5 and the batch loop *)
(* index i is i2/2.  Texts are sequences of one-character tokens, except   *)
(* that a few fixed literals are kept as single tokens.                    *)
(*                                                                         *)
(* JavaScript runs one continuation at a time: every action below is one   *)
(* continuation, from the event that resumes it up to the next await on    *)
(* an external operation (rendering, engine construction, recognition,     *)
(* network fetch, serialization).                                          *)
(***************************************************************************)
EXTENDS Integers, Sequences, FiniteSets, TLC

\* ----------------------------------------------------------------- bounds
\* The longest document a request carries (pages).
MaxPages == 3
\* Numeric environment values range over -EnvSpan .. EnvSpan half units.
EnvSpan == 24
\* Upload sizes range over the size ceiling -SizeSpan .. +SizeSpan bytes.
SizeSpan == 2
\* The longest document given to the rasterizer alone (pages).
MaxLongPages == 12
\* The longest list of page texts assembled by itself.
MaxAsmPages == 3
\* The widest image binarized (pixels); the images are one pixel high.
MaxWidth == 2
MaxLivePages == 3
MaxSubmits == 3

Reqs == {1, 2}
Tags == {"eng", "amh"}

\* F(v) with v evaluated once, as a value the code keeps in a local.
Once(v, F(_)) == CHOOSE y \in {F(x) : x \in {v}} : TRUE

Min(a, b) == IF a < b THEN a ELSE b
Max(a, b) == IF a > b THEN a ELSE b

\* ------------------------------------------------------------------ texts
SENTINEL == <<"[OCR failed for this page]">>
EMPTY_PLACEHOLDER == <<"(empty)">>
NL == "\n"
IsSpace(c) == c \in {" ", "\n"}

RECURSIVE TrimStart(_)
TrimStart(s) ==
  IF s # <<>> /\ IsSpace(Head(s)) THEN TrimStart(Tail(s)) ELSE s

RECURSIVE TrimEnd(_)
TrimEnd(s) ==
  IF s # <<>> /\ IsSpace(s[Len(s)]) THEN TrimEnd(SubSeq(s, 1, Len(s) - 1)) ELSE s

\* String.prototype.trim
Trim(s) == TrimEnd(TrimStart(s))

\* Array.prototype.join
RECURSIVE Join(_, _)
Join(parts, sep) ==
  IF parts = <<>> THEN <<>>
  ELSE IF Len(parts) = 1 THEN parts[1]
  ELSE parts[1] \o sep \o Join(Tail(parts), sep)

\* What the engine reads off a page: page k carries the text "k", except
\* that page 0 and the even pages are blank; the engine's raw output ends
\* with a newline.
IsBlankPage(src) == src % 2 = 0
RawText(src) == IF IsBlankPage(src) THEN <<" ", NL>> ELSE <<ToString(src), NL>>

\* ---------------------------------------------------------- configuration
\* An environment variable read as a number: unset, the empty string, a
\* text that is no number, "Infinity", or a number v (in half units).
NumEnv(kind, v) == [k |-> kind, v |-> v]
EnvUnset == NumEnv("unset", 0)
NumEnvs ==
  {NumEnv(kind, 0) : kind \in {"unset", "empty", "text", "inf"}}
    \cup {NumEnv("num", v) : v \in (0 - EnvSpan) .. EnvSpan}

\* raw ? Number(raw) : NaN, then Number.isFinite(n)
IsFiniteNumber(raw) == raw.k = "num"

\* A whole number in half units.
Half(n) == 2 * n

DefaultBatchSize == 3
MinBatchSize == 1
MaxBatchSize == 5

\* The clamp without its upper end.
OCR_BATCH_SIZE_NoUpperClamp(raw) ==
  IF ~IsFiniteNumber(raw) \/ raw.v <= 0 THEN Half(DefaultBatchSize)
  ELSE Max(raw.v, Half(MinBatchSize))

\* The batch size, in half units.
OCR_BATCH_SIZE(raw) ==
  IF ~IsFiniteNumber(raw) \/ raw.v <= 0 THEN Half(DefaultBatchSize)
  ELSE Min(Max(raw.v, Half(MinBatchSize)), Half(MaxBatchSize))

\* OCR_BINARIZE as a string ("<unset>" stands for undefined).
BinEnvs == {"<unset>", "", "1", "true", "TRUE", "Yes", "0", "on"}
ToLowerCase(s) ==
  CASE s = "TRUE" -> "true"
    [] s = "Yes" -> "yes"
    [] OTHER -> s

BINARIZE_ENABLED(raw) ==
  IF raw \in {"<unset>", ""} THEN FALSE
  ELSE ToLowerCase(raw) \in {"1", "true", "yes"}

AMHARIC_BINARIZE_ENABLED == TRUE

\* The module-level constants, computed once when the module is loaded.
ModuleConfig(e) ==
  [batch2 |-> OCR_BATCH_SIZE(e.batch), binarize |-> BINARIZE_ENABLED(e.bin)]
Unloaded == [batch2 |-> 0, binarize |-> FALSE]

\* ------------------------------------------------------------------ state
VARIABLES
  env,          \* the process environment: [batch, bin, fontOnDisk]
  cfg,          \* the module constants: [batch2, binarize]
  workerCache,  \* tag -> [st, h]: the cached engine promise and its identity
  created,      \* tag -> number of createWorker invocations
  fontCache,    \* whether fontCache["noto-ethiopic"] is set
  fontLoads,    \* number of font loads started (disk reads and fetches)
  preload,      \* the loadFontData call made at module load
  req,          \* request -> the state of one convertToSearchablePdf call
  route,        \* one POST /api/ocr request: [pc, file, lang, status, called]
  asm,          \* one buildSearchablePdf call by itself: [pc, pageTexts, lang, pages]
  canvas,       \* one rendered page in the rasterizer: [pc, lang, threshold, src, out]
  ui            \* the upload page: [upload, previewName, lang, pending, sent]

vars ==
  <<env, cfg, workerCache, created, fontCache, fontLoads, preload, req, route, asm,
    canvas, ui>>

\* ------------------------------------------------------------ engine pool
\* A cache that counts an entry only once its engine is constructed.
CacheHitSettledOnly(cache, lang) == cache[lang].st = "ready"

\* A cache that drops an entry whose construction failed, so that the
\* next call constructs again.
CacheHitUnlessFailed(cache, lang) == cache[lang].st \in {"pending", "ready"}

\* `if (!workerCache[lang])`: a cached promise is truthy whether it is
\* pending, fulfilled or rejected.
CacheHit(cache, lang) == cache[lang].st # "absent"

\* getWorker(lang) on the pool p = [cache, created]: on a miss the async
\* body runs up to `await createWorker(...)` and its promise is stored
\* before getWorker returns.
GetWorker(p, lang) ==
  IF CacheHit(p.cache, lang) THEN p
  ELSE [cache |-> [p.cache EXCEPT ![lang] =
                     [st |-> "pending", h |-> p.created[lang] + 1]],
        created |-> [p.created EXCEPT ![lang] = @ + 1]]

\* Where `await getWorker(lang)` leaves a call: waiting on a pending
\* promise, past it (worker.recognize called), or rejected with it.
AfterAcquire(st) ==
  CASE st = "pending" -> "wait"
    [] st = "ready" -> "recog"
    [] OTHER -> "fail"

\* ocrImage(img, lang) up to its first suspension.
NewCall(p, lang, img) ==
  [img |-> img, h |-> p.cache[lang].h, st |-> AfterAcquire(p.cache[lang].st),
   eng |-> FALSE]

\* imgs.map(img => ocrImage(img, lang)): the calls start one after the
\* other, each through getWorker, before any of them resumes.
RECURSIVE StartCalls(_, _, _)
StartCalls(p, lang, imgs) ==
  IF imgs = <<>> THEN [pool |-> p, calls |-> <<>>]
  ELSE LET p1 == GetWorker(p, lang)
           rest == StartCalls(p1, lang, Tail(imgs))
       IN [pool |-> rest.pool,
           calls |-> <<NewCall(p1, lang, Head(imgs))>> \o rest.calls]

\* data.text?.trim() ?? ""
Recognize(img) == Trim(RawText(img.src))

\* ---------------------------------------------------------------- request
\* pdfBase64: string | null; a document is kept as its pages.
NullPdf == [null |-> TRUE, pages |-> <<>>]
PdfOf(pages) == [null |-> FALSE, pages |-> pages]
NoResult == [text |-> <<>>, pdf |-> NullPdf]

IdleReq ==
  [pc |-> "idle", lang |-> "eng", isPdf |-> FALSE, path |-> "none",
   doc |-> <<>>, pages |-> <<>>, i2 |-> 0, calls |-> <<>>, texts |-> <<>>,
   err |-> "none", out |-> NoResult,
   \* what happened to the request, for the properties below: the pages
   \* whose recognition call failed (F) and succeeded (K), the slots of the
   \* current batch in the order they settled, whether a call settled
   \* before an earlier one of its batch (ooo), the engine promises its
   \* calls were given (got), whether engine construction failed on it,
   \* the number of rendered pages the rasterizer's catch threw away.
   F |-> {}, K |-> {}, order |-> <<>>, ooo |-> FALSE, got |-> {}, efail |-> FALSE,
   dropped |-> 0]

\* const lang = params.lang && params.lang.trim() ? params.lang.trim() : "eng"
TrimTag(l) ==
  CASE l = " amh " -> "amh"
    [] l = " " -> ""
    [] OTHER -> l
LangOf(l) == IF l # "" /\ TrimTag(l) # "" THEN TrimTag(l) ELSE "eng"

IsPdf(mime, pdfExt) == mime = "application/pdf" \/ pdfExt

\* lang.includes("amh")
IsAmharic(lang) == lang \in {"amh", "eng+amh"}

ShouldBinarize(lang) ==
  IF IsAmharic(lang) THEN AMHARIC_BINARIZE_ENABLED ELSE cfg.binarize

defaultMaxPages == 10
\* A rasterizer without the page cap: every page of the document.
PageCountUncapped(numPages, maxPages) == numPages
\* maxPages = 0 stands for an omitted argument.
PageCount(numPages, maxPages) ==
  IF maxPages # 0 THEN Min(numPages, maxPages)
  ELSE Min(numPages, defaultMaxPages)

\* The raw input bytes handed to the engine as they are.
RawImage(doc) == [src |-> doc[1], bin |-> FALSE]
\* Page k of the document as the rasterizer pushes it.
PageImage(doc, k, lang) == [src |-> doc[k], bin |-> ShouldBinarize(lang)]

\* pageImages.slice(i, i + OCR_BATCH_SIZE), 1-based: slice truncates its
\* arguments toward zero and stops at the end of the array.
SliceFrom(i2) == (i2 \div 2) + 1
SliceTo(i2, n) == Min((i2 + cfg.batch2) \div 2, n)
Batch(pages, i2) == SubSeq(pages, SliceFrom(i2), SliceTo(i2, Len(pages)))

Settled(c) == c.st \in {"ok", "fail"}
\* A batch awaited with Promise.all over calls without a catch: it goes
\* on only when every call succeeded.
AllFulfilled(calls) == \A k \in 1 .. Len(calls) : calls[k].st = "ok"
AllSettled(calls) == \A k \in 1 .. Len(calls) : Settled(calls[k])

\* A catch that returns the empty text for a failed page.
CallTextEmptyOnFailure(c) == IF c.st = "ok" THEN Recognize(c.img) ELSE <<>>

\* A page's entry in batchTexts: its text, or what the .catch returns.
CallText(c) == IF c.st = "ok" THEN Recognize(c.img) ELSE SENTINEL

\* Results appended as the calls settle.
BatchTextsByCompletion(calls, order) ==
  [k \in 1 .. Len(order) |-> CallText(calls[order[k]])]

\* Promise.all keeps the order of the promises it was given.
BatchTexts(calls, order) == [k \in 1 .. Len(calls) |-> CallText(calls[k])]

\* Call k of the current batch settles: fulfilled, or rejected by the
\* recognition (eng = FALSE) or by the engine promise (eng = TRUE).
SettleCall(rq, k, ok, eng) ==
  [rq EXCEPT !.calls[k].st = IF ok THEN "ok" ELSE "fail",
             !.calls[k].eng = eng,
             !.F = IF ok THEN @ ELSE @ \cup {rq.calls[k].img.src},
             !.K = IF ok THEN @ \cup {rq.calls[k].img.src} ELSE @,
             !.order = Append(@, k),
             !.ooo = @ \/ \E j \in 1 .. k - 1 : ~Settled(rq.calls[j]),
             !.efail = @ \/ eng]

\* The calls just started, recorded; those given an already rejected
\* engine promise settle at once, in the order they were started.
RECURSIVE NoteFrom(_, _)
NoteFrom(rq, k) ==
  IF k > Len(rq.calls) THEN rq
  ELSE LET c == rq.calls[k]
           rq1 == [rq EXCEPT !.got = @ \cup {c.h}]
       IN Once(IF c.st = "fail"
               THEN SettleCall([rq1 EXCEPT !.calls[k].st = "wait"], k, FALSE, TRUE)
               ELSE rq1,
               LAMBDA noted : NoteFrom(noted, k + 1))
Noted(rq) == NoteFrom(rq, 1)

Pool == [cache |-> workerCache, created |-> created]

\* The first batch, or the next one: its calls start together.
StartBatch(rq, p) ==
  LET s == StartCalls(p, rq.lang, Batch(rq.pages, rq.i2))
  IN [rq |-> Noted([rq EXCEPT !.pc = "batch", !.calls = s.calls]), pool |-> s.pool]

\* The single recognition call of the image path and of the zero-page
\* fallback, on the raw input bytes.
StartSingle(rq, p, path) ==
  LET s == StartCalls(p, rq.lang, <<RawImage(rq.doc)>>)
  IN [rq |-> Noted([rq EXCEPT !.pc = "ocr1", !.path = path, !.calls = s.calls]),
      pool |-> s.pool]

\* texts.push(...batchTexts); i += OCR_BATCH_SIZE
PushBatch(rq) ==
  [rq EXCEPT !.texts = @ \o BatchTexts(rq.calls, rq.order),
             !.i2 = @ + cfg.batch2,
             !.calls = <<>>,
             !.order = <<>>]

\* A rejected `await ocrImage(...)` outside the batches rejects convert.
SingleFailed(rq) ==
  [rq EXCEPT !.pc = "failed", !.calls = <<>>, !.order = <<>>,
             !.err = IF rq.calls[1].eng THEN "engine" ELSE "recognize"]

SingleDone(rq) ==
  [rq EXCEPT !.pc = "build", !.texts = <<Recognize(rq.calls[1].img)>>,
             !.calls = <<>>, !.order = <<>>]

\* convertToSearchablePdf resumed after its awaited calls settled: it runs
\* on until it awaits something that has not settled yet.
RECURSIVE Drive(_, _)
Drive(rq, p) ==
  IF rq.pc = "ocr1" /\ AllSettled(rq.calls) THEN
    [rq |-> IF rq.calls[1].st = "ok" THEN SingleDone(rq) ELSE SingleFailed(rq),
     pool |-> p]
  ELSE IF rq.pc = "batch" /\ AllSettled(rq.calls) THEN
    Once(PushBatch(rq), LAMBDA pushed :
      IF pushed.i2 < 2 * Len(pushed.pages)
      THEN Once(StartBatch(pushed, p), LAMBDA nb : Drive(nb.rq, nb.pool))
      ELSE [rq |-> [pushed EXCEPT !.pc = "build"], pool |-> p])
  ELSE [rq |-> rq, pool |-> p]

\* ---------------------------------------------------------------- actions
\* The inputs: a blank single page, and the documents of pages 1 .. n.
Docs == {<<0>>} \cup {[k \in 1 .. n |-> k] : n \in 1 .. MaxPages}

\* The requests are interchangeable and are admitted in the order of
\* their numbers; between them they carry at most MaxPages + 1 pages.
RECURSIVE SumLen(_)
SumLen(S) ==
  IF S = {} THEN 0
  ELSE LET r == CHOOSE x \in S : TRUE IN Len(req[r].doc) + SumLen(S \ {r})
PagesInHand == SumLen(Reqs)

Admit(r, doc) ==
  /\ req[r].pc = "idle"
  /\ \A q \in Reqs : q < r => req[q].pc # "idle"
  /\ PagesInHand + Len(doc) <= MaxPages + 1

SetPool(p) == workerCache' = p.cache /\ created' = p.created

\* convertToSearchablePdf(params), up to its first suspension.
Convert(r, l, mime, pdfExt, doc) ==
  /\ req[r].pc = "idle"
  /\ IsPdf(mime, pdfExt) \/ Len(doc) = 1
  /\ LET rq == [req[r] EXCEPT !.lang = LangOf(l), !.isPdf = IsPdf(mime, pdfExt),
                              !.doc = doc]
     IN IF rq.isPdf
        THEN /\ req' = [req EXCEPT ![r] = [rq EXCEPT !.pc = "raster"]]
             /\ UNCHANGED <<workerCache, created>>
        ELSE LET d == StartSingle(rq, Pool, "image")
                 e == Drive(d.rq, d.pool)
             IN req' = [req EXCEPT ![r] = e.rq] /\ SetPool(e.pool)
  /\ UNCHANGED <<ui, canvas, asm, route, env, cfg, fontCache, fontLoads, preload>>

\* The number of pages rasterizePdfPages(bytes, undefined, lang) renders.
RasterPages(numPages) == PageCount(numPages, 0)

\* A catch that returns the pages rendered so far.
RasterCaughtPartial(rq) == rq

\* The rasterizer's catch: `return []`, whatever was pushed before.
RasterCaught(rq) == [rq EXCEPT !.pages = <<>>, !.dropped = Len(rq.pages)]

\* convert resumed with the rasterizer's result: no pages, one call on
\* the raw bytes; otherwise the first batch.
RasterReturned(rq, p) ==
  LET d == IF rq.pages = <<>> THEN StartSingle(rq, p, "fallback")
           ELSE StartBatch([rq EXCEPT !.path = "pdf", !.i2 = 0], p)
  IN Drive(d.rq, d.pool)

\* rasterizePdfPages: one more page rendered and pushed; after the last
\* one the pages are returned to convert.
RenderPage(r) ==
  /\ req[r].pc = "raster"
  /\ LET rq == req[r]
         k == Len(rq.pages) + 1
         rq1 == [rq EXCEPT !.pages = Append(@, PageImage(rq.doc, k, rq.lang))]
     IN IF k < RasterPages(Len(rq.doc))
        THEN /\ req' = [req EXCEPT ![r] = rq1]
             /\ UNCHANGED <<workerCache, created>>
        ELSE LET e == RasterReturned(rq1, Pool)
             IN req' = [req EXCEPT ![r] = e.rq] /\ SetPool(e.pool)
  /\ UNCHANGED <<ui, canvas, asm, route, env, cfg, fontCache, fontLoads, preload>>

\* rasterizePdfPages: loading the document or rendering a page threw; the
\* catch returns [] and convert falls back to the raw bytes.
RasterFail(r) ==
  /\ req[r].pc = "raster"
  /\ LET e == RasterReturned(RasterCaught(req[r]), Pool)
     IN req' = [req EXCEPT ![r] = e.rq] /\ SetPool(e.pool)
  /\ UNCHANGED <<ui, canvas, asm, route, env, cfg, fontCache, fontLoads, preload>>

\* worker.recognize of call k of request r resolved or rejected.
RecognizeSettles(r, k, ok) ==
  /\ req[r].pc \in {"ocr1", "batch"}
  /\ k \in 1 .. Len(req[r].calls)
  /\ req[r].calls[k].st = "recog"
  /\ LET e == Drive(SettleCall(req[r], k, ok, FALSE), Pool)
     IN req' = [req EXCEPT ![r] = e.rq] /\ SetPool(e.pool)
  /\ UNCHANGED <<ui, canvas, asm, route, env, cfg, fontCache, fontLoads, preload>>

RecognizeOk(r, k) == RecognizeSettles(r, k, TRUE)
RecognizeFail(r, k) == RecognizeSettles(r, k, FALSE)

\* The calls of rq that await the engine promise of `tag`, resumed.
\* They resume in the order they were started: each goes on to call
\* worker.recognize, or is rejected with the promise.
RECURSIVE ResumeFrom(_, _, _, _)
ResumeFrom(rq, tag, ok, k) ==
  IF k > Len(rq.calls) THEN rq
  ELSE LET hit == rq.lang = tag /\ rq.calls[k].st = "wait"
       IN ResumeFrom(IF ~hit THEN rq
                     ELSE IF ok THEN [rq EXCEPT !.calls[k].st = "recog"]
                     ELSE SettleCall(rq, k, FALSE, TRUE),
                     tag, ok, k + 1)
\* One engine promise shared by all tags: whatever tag settles, every
\* waiting call of the request resumes with its outcome.
ResumeAnyTag(rq, tag, ok) == ResumeFrom(rq, rq.lang, ok, 1)

Resume(rq, tag, ok) == ResumeFrom(rq, tag, ok, 1)

RECURSIVE DriveAll(_, _, _)
DriveAll(rs, todo, p) ==
  IF todo = {} THEN [reqs |-> rs, pool |-> p]
  ELSE LET r == CHOOSE x \in todo : \A y \in todo : x <= y
           e == Drive(rs[r], p)
       IN DriveAll([rs EXCEPT ![r] = e.rq], todo \ {r}, e.pool)

\* createWorker and setParameters resolved (ok) or one of them rejected:
\* the cached promise settles and every call awaiting it resumes.
WorkerSettles(tag, ok) ==
  /\ workerCache[tag].st = "pending"
  /\ LET p == [cache |-> [workerCache EXCEPT ![tag].st = IF ok THEN "ready" ELSE "failed"],
               created |-> created]
         e == DriveAll([r \in Reqs |-> Resume(req[r], tag, ok)], Reqs, p)
     IN req' = e.reqs /\ SetPool(e.pool)
  /\ UNCHANGED <<ui, canvas, asm, route, env, cfg, fontCache, fontLoads, preload>>

WorkerReady(tag) == WorkerSettles(tag, TRUE)
WorkerFail(tag) == WorkerSettles(tag, FALSE)

\* --------------------------------------------------------------- assembly
\* A page text is a sequence of tokens: letters, " ", "\n", and one token
\* for each class of characters the cleaning treats alike: "CTRL" (the
\* control characters of the first replace), "FFFD" (U+FFFD), "ZW"
\* (U+200B-U+200D, U+FEFF), "BIDI" (U+202A-U+202E), and "BAD", a
\* character on which page.drawText throws with the embedded font.
ControlChars == {"CTRL"}
ReplacementChar == {"FFFD"}
ZeroWidthChars == {"ZW"}
BidiControls == {"BIDI"}

\* s.replace(/[class]/g, repl)
RECURSIVE ReplaceAll(_, _, _)
ReplaceAll(s, class, repl) ==
  IF s = <<>> THEN <<>>
  ELSE (IF Head(s) \in class THEN repl ELSE <<Head(s)>>)
         \o ReplaceAll(Tail(s), class, repl)

\* The cleaning of a raw page text.
Clean(rawText, isAmharic) ==
  LET cleaned == ReplaceAll(ReplaceAll(rawText, ControlChars, <<" ">>),
                            ReplacementChar, IF isAmharic THEN <<>> ELSE <<" ">>)
  IN IF isAmharic
     THEN ReplaceAll(ReplaceAll(cleaned, ZeroWidthChars, <<>>), BidiControls, <<>>)
     ELSE cleaned

\* The number of newlines s starts with.
RECURSIVE RunOfNewlines(_)
RunOfNewlines(s) ==
  IF s # <<>> /\ Head(s) = NL THEN 1 + RunOfNewlines(Tail(s)) ELSE 0

\* s.split(/\n{2,}/), `cur` being the piece read so far.
RECURSIVE SplitParagraphs(_, _)
SplitParagraphs(s, cur) ==
  IF s = <<>> THEN <<cur>>
  ELSE IF RunOfNewlines(s) >= 2
       THEN <<cur>> \o SplitParagraphs(SubSeq(s, RunOfNewlines(s) + 1, Len(s)), <<>>)
       ELSE SplitParagraphs(Tail(s), Append(cur, Head(s)))

\* p.replace(/\s+/g, " ")
RECURSIVE CollapseSpaces(_)
CollapseSpaces(s) ==
  IF s = <<>> THEN <<>>
  ELSE IF IsSpace(Head(s)) THEN <<" ">> \o CollapseSpaces(TrimStart(Tail(s)))
       ELSE <<Head(s)>> \o CollapseSpaces(Tail(s))

NonEmpty(p) == p # <<>>

\* split, map(trim and collapse), filter(Boolean), join("\n\n")
NormalizedText(cleaned) ==
  LET pieces == SplitParagraphs(cleaned, <<>>)
      mapped == [k \in 1 .. Len(pieces) |-> CollapseSpaces(Trim(pieces[k]))]
  IN Join(SelectSeq(mapped, NonEmpty), <<NL, NL>>)

\* normalizedText || cleaned || "(empty)"
DrawnText(cleaned) ==
  IF NormalizedText(cleaned) # <<>> THEN NormalizedText(cleaned)
  ELSE IF cleaned # <<>> THEN cleaned
  ELSE EMPTY_PLACEHOLDER

\* page.drawText(text, ...) throws on a character it cannot draw.
DrawThrows(text) == \E i \in 1 .. Len(text) : text[i] = "BAD"

ERROR_PLACEHOLDER == <<"[Error rendering text - possible unsupported characters]">>
ErrorFontSize == 12

\* A catch that logs the error and draws nothing.
ErrorPageBlank ==
  [text |-> <<>>, size |-> ErrorFontSize, color |-> "red", threw |-> TRUE]

\* The page drawn by the catch: the fixed placeholder, in red.
ErrorPage ==
  [text |-> ERROR_PLACEHOLDER, size |-> ErrorFontSize, color |-> "red", threw |-> TRUE]

FontSize(isAmharic) == IF isAmharic THEN 16 ELSE 14

\* One turn of the loop: the page added for rawText and what is drawn on
\* it; `threw` records that the first drawText threw.
DrawPage(rawText, lang) ==
  Once(Clean(rawText, IsAmharic(lang)), LAMBDA cleaned :
    Once(DrawnText(cleaned), LAMBDA text :
      IF DrawThrows(text) THEN ErrorPage
      ELSE [text |-> text, size |-> FontSize(IsAmharic(lang)), color |-> "black",
            threw |-> FALSE]))

\* An assembler that skips the page texts that are empty.
DocPagesNonEmpty(pageTexts, lang) ==
  LET src == SelectSeq(pageTexts, NonEmpty)
  IN [k \in 1 .. Len(src) |-> DrawPage(src[k], lang)]

\* One output page per text; an empty list still gives one page.
DocPages(pageTexts, lang) ==
  LET src == IF pageTexts # <<>> THEN pageTexts ELSE <<EMPTY_PLACEHOLDER>>
  IN [k \in 1 .. Len(src) |-> DrawPage(src[k], lang)]

\* Headers numbered from the array index.
PageBlockZeroBased(t, idx) == Trim(<<"Page", " ", ToString(idx), NL>> \o t)

\* `Page ${idx + 1}\n${t}`.trim()
PageBlock(t, idx) == Trim(<<"Page", " ", ToString(idx + 1), NL>> \o t)

CombinedText(texts) ==
  Join([k \in 1 .. Len(texts) |-> PageBlock(texts[k], k - 1)], <<NL, NL>>)

\* The page headers put on every PDF input, the fallback included.
ResultOfByMime(rq) ==
  [text |-> IF rq.isPdf THEN CombinedText(rq.texts) ELSE rq.texts[1],
   pdf |-> PdfOf(DocPages(rq.texts, rq.lang))]

ResultOf(rq) ==
  [text |-> IF rq.path = "pdf" THEN CombinedText(rq.texts) ELSE rq.texts[1],
   pdf |-> PdfOf(DocPages(rq.texts, rq.lang))]

\* With the font data at hand buildSearchablePdf embeds the font, draws
\* the pages and saves the document; convert returns the result.
Assembled(rq) == [rq EXCEPT !.pc = "done", !.out = ResultOf(rq)]

\* buildSearchablePdf(pageTexts, lang) by itself, the font data at hand:
\* the loop over the page texts.
IdleAsm == [pc |-> "idle", pageTexts |-> <<>>, lang |-> "eng", pages |-> <<>>]
BuildCall(pageTexts, lang) ==
  [pc |-> "called", pageTexts |-> pageTexts, lang |-> lang, pages |-> <<>>]

BuildSearchablePdf ==
  /\ asm.pc = "called"
  /\ asm' = [asm EXCEPT !.pc = "done", !.pages = DocPages(asm.pageTexts, asm.lang)]
  /\ UNCHANGED <<ui, canvas, env, cfg, workerCache, created, fontCache, fontLoads, preload, req, route>>

\* ------------------------------------------------------------- font cache
\* loadFontData up to its first suspension: "cached" (nothing to do),
\* "disk" (read synchronously and cached) or "fetch" (await fetch(url)).
FontSource(cached, onDisk) ==
  IF cached THEN "cached" ELSE IF onDisk THEN "disk" ELSE "fetch"

\* buildSearchablePdf reaches `await loadFontData()`.
CallLoadFont(r) ==
  /\ req[r].pc = "build"
  /\ LET src == FontSource(fontCache, env.fontOnDisk)
     IN /\ fontCache' = (fontCache \/ src = "disk")
        /\ fontLoads' = IF src = "cached" THEN fontLoads ELSE fontLoads + 1
        /\ req' = [req EXCEPT ![r] = IF src = "fetch" THEN [req[r] EXCEPT !.pc = "font"]
                                     ELSE Assembled(req[r])]
  /\ UNCHANGED <<ui, canvas, asm, route, env, cfg, workerCache, created, preload>>

\* A font failure swallowed: the text is returned without a document.
FontFailedNullDocument(rq) ==
  [rq EXCEPT !.pc = "done", !.out = [text |-> ResultOf(rq).text, pdf |-> NullPdf]]

\* A rejected loadFontData rejects buildSearchablePdf and with it convert.
FontFailed(rq) == [rq EXCEPT !.pc = "failed", !.err = "font"]

FontFetchOk(r) ==
  /\ req[r].pc = "font"
  /\ fontCache' = TRUE
  /\ req' = [req EXCEPT ![r] = Assembled(req[r])]
  /\ UNCHANGED <<ui, canvas, asm, route, env, cfg, workerCache, created, fontLoads, preload>>

FontFetchFail(r) ==
  /\ req[r].pc = "font"
  /\ req' = [req EXCEPT ![r] = FontFailed(req[r])]
  /\ UNCHANGED <<ui, canvas, asm, route, env, cfg, workerCache, created, fontCache, fontLoads, preload>>

\* The module-load call loadFontData().catch(warn).
PreloadFetchOk ==
  /\ preload = "fetch"
  /\ fontCache' = TRUE
  /\ preload' = "done"
  /\ UNCHANGED <<ui, canvas, asm, route, env, cfg, workerCache, created, fontLoads, req>>

\* A failed load that leaves its rejection in the cache as if it were the
\* font data.
PreloadFailedCached(cached) == TRUE

\* The cache after a load that threw: loadFontData assigns fontCache only
\* after the data has arrived, so a failed load leaves it as it was.
PreloadFailed(cached) == cached

PreloadFetchFail ==
  /\ preload = "fetch"
  /\ preload' = "failed"
  /\ fontCache' = PreloadFailed(fontCache)
  /\ UNCHANGED <<ui, canvas, asm, route, env, cfg, workerCache, created, fontLoads, req>>

\* ----------------------------------------------------------- binarization
\* JavaScript numbers are IEEE-754 doubles.  Every number met in
\* `0.299 * r + 0.587 * g + 0.114 * b` is a non-negative multiple of 2^-56
\* below 2^8; it is kept as the integer x * 2^56, written in three limbs
\* <<high, middle, low>> of 22 bits each.
Limb == 2 ^ 22

\* The limbs brought back into range, carries moved up.
Carry(x) ==
  LET mid == x[2] + x[3] \div Limb
  IN <<x[1] + mid \div Limb, mid % Limb, x[3] % Limb>>

Plus(x, y) == Carry(<<x[1] + y[1], x[2] + y[2], x[3] + y[3]>>)
Times(x, n) == Carry(<<x[1] * n, x[2] * n, x[3] * n>>)
AtLeast(x, y) ==
  \/ x[1] > y[1]
  \/ x[1] = y[1] /\ x[2] > y[2]
  \/ x[1] = y[1] /\ x[2] = y[2] /\ x[3] >= y[3]

RECURSIVE BitLength(_)
BitLength(n) == IF n = 0 THEN 0 ELSE 1 + BitLength(n \div 2)
Bits(x) ==
  IF x[1] > 0 THEN 44 + BitLength(x[1])
  ELSE IF x[2] > 0 THEN 22 + BitLength(x[2])
  ELSE BitLength(x[3])

\* The result of an arithmetic operation as it is stored: the exact value
\* rounded to 53 significant bits, to nearest, ties to even.
RoundToDouble(x) ==
  LET s == Bits(x) - 53
  IN IF s <= 0 THEN x
     ELSE LET unit == 2 ^ s
              rem == x[3] % unit
              odd == (x[3] \div unit) % 2 = 1
              up == 2 * rem > unit \/ (2 * rem = unit /\ odd)
          IN Carry(<<x[1], x[2], x[3] - rem + (IF up THEN unit ELSE 0)>>)

\* The literals as doubles: 0.299 is 5386305154335113 * 2^-54, 0.587 is
\* 5287225962532962 * 2^-53 and 0.114 is 8214565720323785 * 2^-56.
LumaRed == <<1224, 2952790, 67108>>
LumaGreen == <<2404, 1476395, 33552>>
LumaBlue == <<466, 3959422, 4093641>>

\* A number given in half units as a double.
Halves(n2) == <<n2 * 2 ^ 11, 0, 0>>

FloatMul(x, n) == RoundToDouble(Times(x, n))
FloatAdd(x, y) == RoundToDouble(Plus(x, y))

\* const gray = 0.299 * r + 0.587 * g + 0.114 * b
Gray(r, g, b) ==
  FloatAdd(FloatAdd(FloatMul(LumaRed, r), FloatMul(LumaGreen, g)), FloatMul(LumaBlue, b))

DefaultThreshold == 180
MinThreshold == 0
MaxThreshold == 255

\* BINARIZE_THRESHOLD, in half units.
BINARIZE_THRESHOLD(raw) ==
  IF ~IsFiniteNumber(raw) THEN Half(DefaultThreshold)
  ELSE Min(Max(raw.v, Half(MinThreshold)), Half(MaxThreshold))

White == 255
Black == 0

\* gray >= BINARIZE_THRESHOLD
IsLight(px, threshold2) == AtLeast(Gray(px.r, px.g, px.b), Halves(threshold2))

\* One turn of the pixel loop: the three colour bytes are overwritten,
\* the fourth byte is not touched.
BinarizePixel(px, threshold2) ==
  LET v == IF IsLight(px, threshold2) THEN White ELSE Black
  IN [px EXCEPT !.r = v, !.g = v, !.b = v]

\* An image is its canvas size and its pixels, row after row.
Pixel(r, g, b, a) == [r |-> r, g |-> g, b |-> b, a |-> a]
Image(w, h, data) == [width |-> w, height |-> h, data |-> data]
NoImage == Image(0, 0, <<>>)

\* getImageData, the pixel loop, putImageData.
BinarizeImage(image, threshold2) ==
  [image EXCEPT !.data = [i \in 1 .. Len(image.data) |->
                            BinarizePixel(image.data[i], threshold2)]]

IdleCanvas == [pc |-> "idle", lang |-> "eng", threshold |-> 0, src |-> NoImage, out |-> NoImage]

\* The page rendered on the canvas, in a module loaded with the
\* threshold `raw` in the environment.
Rendered(lang, raw, image) ==
  [pc |-> "rendered", lang |-> lang, threshold |-> BINARIZE_THRESHOLD(raw),
   src |-> image, out |-> NoImage]

\* The rest of the loop body after page.render: the canvas is binarized
\* when binarization is on for the language, and encoded.
PushPage ==
  /\ canvas.pc = "rendered"
  /\ canvas' = [canvas EXCEPT !.pc = "pushed",
                        !.out = IF ShouldBinarize(canvas.lang)
                                THEN BinarizeImage(canvas.src, canvas.threshold)
                                ELSE canvas.src]
  /\ UNCHANGED <<ui, asm, env, cfg, workerCache, created, fontCache, fontLoads, preload, req, route>>

\* ------------------------------------------------------ network entry point
\* POST /api/ocr (app/api/ocr/route.ts).  A mime type is the sequence of
\* its parts, "image/png" being <<"image", "/", "png">>.
MaxUploadBytes == 10 * 1024 * 1024

\* String.prototype.startsWith
StartsWith(s, prefix) ==
  Len(s) >= Len(prefix) /\ SubSeq(s, 1, Len(prefix)) = prefix

TooLarge(size) == size > MaxUploadBytes

\* A test for the word "image" anywhere in the type.
IsImageAnywhere(type) == \E i \in 1 .. Len(type) : type[i] = "image"

\* file.type.startsWith("image/")
IsImage(type) == StartsWith(type, <<"image", "/">>)

\* file.type === "application/pdf"
IsPdfType(type) == type = <<"application", "/", "pdf">>

\* formData.get("file"): a File with its size and type, or something
\* that is no File (a missing field, a string).
NoFile == [isFile |-> FALSE, size |-> 0, type |-> <<>>]
FileOf(size, type) == [isFile |-> TRUE, size |-> size, type |-> type]

IdleRoute == [pc |-> "idle", file |-> NoFile, lang |-> "", status |-> 0, called |-> 0]

Respond(rt, status) == [rt EXCEPT !.pc = "responded", !.status = status]

\* The handler from the resolved form data to its first return or await:
\* the checks in their order, then `await file.arrayBuffer()`.
Validate(rt) ==
  IF ~rt.file.isFile THEN Respond(rt, 400)
  ELSE IF ~IsImage(rt.file.type) /\ ~IsPdfType(rt.file.type) THEN Respond(rt, 415)
  ELSE IF TooLarge(rt.file.size) THEN Respond(rt, 413)
  ELSE [rt EXCEPT !.pc = "buffer"]

\* POST(request) up to `await request.formData()`.
Post ==
  /\ route.pc = "idle"
  /\ route' = [route EXCEPT !.pc = "form"]
  /\ UNCHANGED <<ui, canvas, asm, env, cfg, workerCache, created, fontCache, fontLoads, preload, req>>

\* The form data resolved with its "file" and "lang" fields.
FormDataOk(file, langInput) ==
  /\ route.pc = "form"
  /\ route' = Validate([route EXCEPT !.file = file, !.lang = LangOf(langInput)])
  /\ UNCHANGED <<ui, canvas, asm, env, cfg, workerCache, created, fontCache, fontLoads, preload, req>>

\* An await inside the try rejected: the catch answers 500.
RouteThrows(at) ==
  /\ route.pc = at
  /\ route' = Respond(route, 500)
  /\ UNCHANGED <<ui, canvas, asm, env, cfg, workerCache, created, fontCache, fontLoads, preload, req>>

FormDataFail == RouteThrows("form")
ArrayBufferFail == RouteThrows("buffer")
ConvertFail == RouteThrows("convert")

\* The bytes are read and convertToSearchablePdf is called.
ArrayBufferOk ==
  /\ route.pc = "buffer"
  /\ route' = [route EXCEPT !.pc = "convert", !.called = @ + 1]
  /\ UNCHANGED <<ui, canvas, asm, env, cfg, workerCache, created, fontCache, fontLoads, preload, req>>

\* convertToSearchablePdf resolved: the result is returned as JSON.
ConvertOk ==
  /\ route.pc = "convert"
  /\ route' = Respond(route, 200)
  /\ UNCHANGED <<ui, canvas, asm, env, cfg, workerCache, created, fontCache, fontLoads, preload, req>>

\* -------------------------------------------------------------- upload UI
\* The page: the state `upload`, the displayed `previewName`, the
\* language, and the fetches to /api/ocr that have not returned, each
\* with the file its handleSubmit captured.
MaxFileBytes == 10 * 1024 * 1024

\* fileList?.[0]: a File, or undefined.
Picked(name, size, type) == [isFile |-> TRUE, name |-> name, size |-> size, type |-> type]
NothingPicked == [isFile |-> FALSE, name |-> "", size |-> 0, type |-> <<>>]

isImage(file) == StartsWith(file.type, <<"image", "/">>)
isPdf(file) == file.type = <<"application", "/", "pdf">>
tooLarge(file) == file.size > MaxFileBytes

NullName == "<null>"
NoText == <<>>

\* The values of UploadState.
IdleState == [status |-> "idle", file |-> NothingPicked, text |-> NoText, message |-> ""]
ReadyState(file) == [status |-> "ready", file |-> file, text |-> NoText, message |-> ""]
UploadingState(file) ==
  [status |-> "uploading", file |-> file, text |-> NoText, message |-> ""]
ErrorState(message) ==
  [status |-> "error", file |-> NothingPicked, text |-> NoText, message |-> message]
DoneState(file, text) == [status |-> "done", file |-> file, text |-> text, message |-> ""]

\* body.text of the response to the upload of `file`.
ResultText(file) == <<"text of", file.name>>

IdleUi ==
  [upload |-> IdleState, previewName |-> NullName, lang |-> "eng", pending |-> {},
   sent |-> 0]

\* handleFileSelect(fileList)
Selected(u, file) ==
  IF ~file.isFile THEN u
  ELSE IF ~isImage(file) /\ ~isPdf(file)
  THEN [u EXCEPT !.upload = ErrorState("Only images or PDFs are supported"),
                 !.previewName = NullName]
  ELSE IF tooLarge(file)
  THEN [u EXCEPT !.upload = ErrorState("File is too large"), !.previewName = NullName]
  ELSE [u EXCEPT !.upload = ReadyState(file), !.previewName = file.name]

\* The file input changes. The dialog is opened through the label that
\* wraps the input, which is never disabled, or through the "Choose
\* file" button, which is disabled while uploading.
FileInputChange(file, via) ==
  /\ via = "button" => ui.upload.status # "uploading"
  /\ ui' = Selected(ui, file)
  /\ UNCHANGED <<canvas, asm, route, env, cfg, workerCache, created, fontCache, fontLoads, preload, req>>

\* handleSubmit(event) up to `await fetch(...)`.
Submitted(u) ==
  IF u.upload.status # "ready" /\ u.upload.status # "done" THEN u
  ELSE [u EXCEPT !.upload = UploadingState(u.upload.file),
                 !.pending = @ \cup {[id |-> u.sent + 1, file |-> u.upload.file,
                                       lang |-> u.lang]},
                 !.sent = @ + 1]

\* The form is submitted with the submit button, which is disabled while
\* uploading and in the idle state.
HandleSubmit ==
  /\ ui.upload.status \notin {"uploading", "idle"}
  /\ ui.sent < MaxSubmits
  /\ ui' = Submitted(ui)
  /\ UNCHANGED <<canvas, asm, route, env, cfg, workerCache, created, fontCache, fontLoads, preload, req>>

\* The fetch of request p returned an ok response: handleSubmit resumes
\* with the file it captured.
ResponseOk(p) ==
  /\ p \in ui.pending
  /\ ui' = [ui EXCEPT !.upload = DoneState(p.file, ResultText(p.file)),
                       !.pending = @ \ {p}]
  /\ UNCHANGED <<canvas, asm, route, env, cfg, workerCache, created, fontCache, fontLoads, preload, req>>

\* The fetch rejected, or the response was not ok: the catch.
ResponseFail(p) ==
  /\ p \in ui.pending
  /\ ui' = [ui EXCEPT !.upload = ErrorState("Upload failed"), !.pending = @ \ {p}]
  /\ UNCHANGED <<canvas, asm, route, env, cfg, workerCache, created, fontCache, fontLoads, preload, req>>

\* The language select, disabled while uploading.
SetLang(l) ==
  /\ ui.upload.status # "uploading"
  /\ ui' = [ui EXCEPT !.lang = l]
  /\ UNCHANGED <<canvas, asm, route, env, cfg, workerCache, created, fontCache, fontLoads, preload, req>>

\* ---------------------------------------------------------- specification
Mimes == {"application/pdf", "image/png"}
LangInputs == {"", " ", "eng", " amh "}

\* The environments the pipeline is run in: the defaults without the font
\* file on disk (the font is fetched), and two with the font file
\* installed: batches of one page with binarization switched on, and
\* batches of two and a half pages.
Environment(batch, bin, onDisk) == [batch |-> batch, bin |-> bin, fontOnDisk |-> onDisk]
SpecEnvs ==
  {Environment(EnvUnset, "<unset>", FALSE),
   Environment(NumEnv("num", 2), "true", TRUE),
   Environment(NumEnv("num", 5), "<unset>", TRUE)}

\* The process after the module is loaded: the constants are computed and
\* the font preload has run up to its first suspension.
Init ==
  /\ env \in SpecEnvs
  /\ cfg = ModuleConfig(env)
  /\ workerCache = [t \in Tags |-> [st |-> "absent", h |-> 0]]
  /\ created = [t \in Tags |-> 0]
  /\ fontCache = env.fontOnDisk
  /\ fontLoads = 1
  /\ preload = IF env.fontOnDisk THEN "done" ELSE "fetch"
  /\ req = [r \in Reqs |-> IdleReq]
  /\ route = IdleRoute
  /\ asm = IdleAsm
  /\ canvas = IdleCanvas
  /\ ui = IdleUi

Next ==
  \/ \E r \in Reqs, l \in LangInputs, mime \in Mimes, pdfExt \in BOOLEAN, doc \in Docs :
       Admit(r, doc) /\ Convert(r, l, mime, pdfExt, doc)
  \/ \E r \in Reqs : RenderPage(r)
  \/ \E r \in Reqs : RasterFail(r)
  \/ \E r \in Reqs, k \in 1 .. MaxPages : RecognizeOk(r, k)
  \/ \E r \in Reqs, k \in 1 .. MaxPages : RecognizeFail(r, k)
  \/ \E t \in Tags : WorkerReady(t)
  \/ \E t \in Tags : WorkerFail(t)
  \/ \E r \in Reqs : CallLoadFont(r)
  \/ \E r \in Reqs : FontFetchOk(r)
  \/ \E r \in Reqs : FontFetchFail(r)
  \/ PreloadFetchOk
  \/ PreloadFetchFail

Spec == Init /\ [][Next]_vars

\* One convert call when every external call settles: a page being
\* rendered is rendered or fails, an engine under construction is
\* constructed or fails, a recognition in progress resolves or rejects,
\* a font fetch returns or fails, and a continuation that is ready to run
\* is run. The batch size is the default, one and a half or two and a
\* half pages.
LiveDocs == {<<0>>} \cup {[k \in 1 .. n |-> k] : n \in 1 .. MaxLivePages}
LiveEnvs ==
  {Environment(EnvUnset, "<unset>", FALSE),
   Environment(NumEnv("num", 3), "<unset>", FALSE),
   Environment(NumEnv("num", 5), "<unset>", TRUE)}

InitLive ==
  /\ env \in LiveEnvs
  /\ cfg = ModuleConfig(env)
  /\ workerCache = [t \in Tags |-> [st |-> "absent", h |-> 0]]
  /\ created = [t \in Tags |-> 0]
  /\ fontCache = env.fontOnDisk
  /\ fontLoads = 1
  /\ preload = IF env.fontOnDisk THEN "done" ELSE "fetch"
  /\ req = [r \in Reqs |-> IdleReq]
  /\ route = IdleRoute
  /\ asm = IdleAsm
  /\ canvas = IdleCanvas
  /\ ui = IdleUi

\* Some pending call of the request, or of the module, settles.
Settles ==
  \/ RenderPage(1)
  \/ RasterFail(1)
  \/ \E k \in 1 .. MaxBatchSize : RecognizeOk(1, k)
  \/ \E k \in 1 .. MaxBatchSize : RecognizeFail(1, k)
  \/ \E t \in Tags : WorkerReady(t)
  \/ \E t \in Tags : WorkerFail(t)
  \/ CallLoadFont(1)
  \/ FontFetchOk(1)
  \/ FontFetchFail(1)
  \/ PreloadFetchOk
  \/ PreloadFetchFail

NextLive ==
  \/ \E l \in {"eng", " amh "}, mime \in Mimes, doc \in LiveDocs :
       Convert(1, l, mime, FALSE, doc)
  \/ Settles

\* As long as a call is pending, one of the pending calls settles.
ExternalCallsSettle == WF_vars(Settles)

SpecLive == InitLive /\ [][NextLive]_vars /\ ExternalCallsSettle

\* The upload page alone: two files that pass the checks, one of a type
\* and one of a size that do not, and a dialog closed without a file.
UiFiles ==
  {Picked("a.pdf", 1, <<"application", "/", "pdf">>),
   Picked("b.png", 2, <<"image", "/", "png">>),
   Picked("c.txt", 1, <<"text", "/", "plain">>),
   Picked("d.pdf", MaxFileBytes + 1, <<"application", "/", "pdf">>),
   NothingPicked}
UiLangs == {"eng", "amh"}
\* The requests the page can have sent.
UiRequests == [id : 1 .. MaxSubmits, file : UiFiles, lang : UiLangs]

NextUi ==
  \/ \E file \in UiFiles, via \in {"label", "button"} : FileInputChange(file, via)
  \/ HandleSubmit
  \/ \E p \in UiRequests : ResponseOk(p)
  \/ \E p \in UiRequests : ResponseFail(p)
  \/ \E l \in UiLangs : SetLang(l)

SpecUi == Init /\ [][NextUi]_vars

\* The module constants alone, over every value of the environment
\* variables: the module is loaded and computes them.
ConfigEnvs == {Environment(b, s, TRUE) : b \in NumEnvs, s \in BinEnvs}

InitConfig ==
  /\ env \in ConfigEnvs
  /\ cfg = Unloaded
  /\ workerCache = [t \in Tags |-> [st |-> "absent", h |-> 0]]
  /\ created = [t \in Tags |-> 0]
  /\ fontCache = FALSE
  /\ fontLoads = 0
  /\ preload = "none"
  /\ req = [r \in Reqs |-> IdleReq]
  /\ route = IdleRoute
  /\ asm = IdleAsm
  /\ canvas = IdleCanvas
  /\ ui = IdleUi

LoadModule ==
  /\ cfg = Unloaded
  /\ cfg' = ModuleConfig(env)
  /\ UNCHANGED <<ui, canvas, asm, route, env, workerCache, created, fontCache, fontLoads, preload, req>>

NextConfig == LoadModule

SpecConfig == InitConfig /\ [][NextConfig]_vars

\* One convert call on a long PDF, with the font file installed and no
\* recognition failing: the default batch size, and batches of two and a
\* half pages.
LongDocs == {[k \in 1 .. n |-> k] : n \in 1 .. MaxLongPages}
RasterEnvs ==
  {Environment(EnvUnset, "<unset>", TRUE),
   Environment(NumEnv("num", 5), "<unset>", TRUE)}

InitRaster ==
  /\ env \in RasterEnvs
  /\ cfg = ModuleConfig(env)
  /\ workerCache = [t \in Tags |-> [st |-> "absent", h |-> 0]]
  /\ created = [t \in Tags |-> 0]
  /\ fontCache = TRUE
  /\ fontLoads = 1
  /\ preload = "done"
  /\ req = [r \in Reqs |-> IdleReq]
  /\ route = IdleRoute
  /\ asm = IdleAsm
  /\ canvas = IdleCanvas
  /\ ui = IdleUi

NextRaster ==
  \/ \E doc \in LongDocs : Convert(1, "eng", "application/pdf", FALSE, doc)
  \/ RenderPage(1)
  \/ RasterFail(1)
  \/ WorkerReady("eng")
  \/ \E k \in 1 .. MaxBatchSize : RecognizeOk(1, k)
  \/ CallLoadFont(1)

SpecRaster == InitRaster /\ [][NextRaster]_vars

\* buildSearchablePdf alone, the font file installed, over lists of one to
\* MaxAsmPages page texts as convert passes them: trimmed recognized
\* texts and the failure marker.
PageTexts ==
  {<<>>, <<"a">>, <<"b">>, <<"a", " ", " ", "b">>, <<"a", NL, "b">>,
   <<"a", NL, NL, NL, "b">>, <<"CTRL">>, <<"a", "CTRL", "b">>,
   <<"FFFD">>, <<"a", "FFFD", "b">>, <<"a", "ZW", "BIDI", "b">>,
   <<"BAD">>, <<"a", NL, NL, "BAD">>, SENTINEL}
AsmLangs == {"eng", "amh", "eng+amh"}
AsmInputs == UNION {[1 .. n -> PageTexts] : n \in 1 .. MaxAsmPages}

InitAssemble ==
  /\ env = Environment(EnvUnset, "<unset>", TRUE)
  /\ cfg = ModuleConfig(env)
  /\ workerCache = [t \in Tags |-> [st |-> "absent", h |-> 0]]
  /\ created = [t \in Tags |-> 0]
  /\ fontCache = TRUE
  /\ fontLoads = 1
  /\ preload = "done"
  /\ req = [r \in Reqs |-> IdleReq]
  /\ route = IdleRoute
  /\ asm \in {BuildCall(ts, l) : ts \in AsmInputs, l \in AsmLangs}
  /\ canvas = IdleCanvas
  /\ ui = IdleUi

NextAssemble == BuildSearchablePdf

SpecAssemble == InitAssemble /\ [][NextAssemble]_vars

\* The binarization of one rendered page alone: the thresholds the
\* environment can give, every one-pixel image over a few channel values,
\* and wider images of black, white and boundary pixels.
ThresholdEnvs ==
  {EnvUnset, NumEnv("text", 0)}
    \cup {NumEnv("num", v) : v \in {0 - 2, 0, 2, 249, 508, 510, 600}}
Channels == {0, 1, 60, 124, 180, 252, 254, 255}
Alphas == {0, 128}
Pixels == {Pixel(r, g, b, a) : r \in Channels, g \in Channels, b \in Channels, a \in Alphas}
CornerPixels == {Pixel(0, 0, 0, 128), Pixel(255, 255, 255, 0), Pixel(60, 252, 124, 128)}
Images ==
  {Image(1, 1, <<px>>) : px \in Pixels}
    \cup UNION {{Image(w, 1, data) : data \in [1 .. w -> CornerPixels]} : w \in 2 .. MaxWidth}
BinarizeEnvs ==
  {Environment(EnvUnset, "<unset>", TRUE), Environment(EnvUnset, "true", TRUE)}

InitBinarize ==
  /\ env \in BinarizeEnvs
  /\ cfg = ModuleConfig(env)
  /\ workerCache = [t \in Tags |-> [st |-> "absent", h |-> 0]]
  /\ created = [t \in Tags |-> 0]
  /\ fontCache = TRUE
  /\ fontLoads = 1
  /\ preload = "done"
  /\ req = [r \in Reqs |-> IdleReq]
  /\ route = IdleRoute
  /\ asm = IdleAsm
  /\ canvas \in {Rendered(l, raw, image) : l \in Tags, raw \in ThresholdEnvs, image \in Images}
  /\ ui = IdleUi

NextBinarize == PushPage

SpecBinarize == InitBinarize /\ [][NextBinarize]_vars

\* The network entry point alone, over uploads around the size ceiling and
\* of every kind of type.
UploadSizes == {0} \cup ((MaxUploadBytes - SizeSpan) .. (MaxUploadBytes + SizeSpan))
UploadTypes ==
  {<<"image", "/", "png">>, <<"image", "/">>, <<"image">>,
   <<"x", "-", "image", "/", "png">>, <<"application", "/", "pdf">>,
   <<"application", "/", "pdf", "+", "zip">>, <<"text", "/", "plain">>, <<>>}
Uploads == {NoFile} \cup {FileOf(n, t) : n \in UploadSizes, t \in UploadTypes}
RouteLangs == {"", " amh "}

NextRoute ==
  \/ Post
  \/ \E f \in Uploads, l \in RouteLangs : FormDataOk(f, l)
  \/ FormDataFail
  \/ ArrayBufferOk
  \/ ArrayBufferFail
  \/ ConvertOk
  \/ ConvertFail

SpecRoute == Init /\ [][NextRoute]_vars

\* ------------------------------------------------------------- properties
AfterRecognition == {"build", "font", "done", "failed"}
Sources(pages) == {pages[i].src : i \in 1 .. Len(pages)}
HasWaiting(rq) == \E k \in 1 .. Len(rq.calls) : rq.calls[k].st = "wait"

\* C1: for every language tag, however many calls for it overlap while no
\* engine exists, createWorker is invoked exactly once and every caller is
\* given the same engine promise, the one in the cache.
C1_SingleFlight ==
  \A t \in Tags :
    /\ created[t] <= 1
    /\ (created[t] = 0) <=> (workerCache[t].st = "absent")
    /\ \A r \in Reqs :
         req[r].lang = t /\ req[r].got # {} =>
           created[t] = 1 /\ req[r].got = {workerCache[t].h}

\* Both requests wait on the one pending construction of their tag, one of
\* them with several calls of a batch.
C1_Witness ==
  \E t \in Tags :
    /\ workerCache[t].st = "pending" /\ created[t] = 1
    /\ \A r \in Reqs : req[r].lang = t /\ HasWaiting(req[r])
    /\ \E r \in Reqs : Len(req[r].calls) >= 2

\* C2: on the PDF path the i-th page text is the result for the i-th page
\* image (its recognized text, or the failure marker), whatever the order
\* in which the calls of a batch settle, and no page is missing at the end.
C2_PageOrder ==
  \A r \in Reqs :
    req[r].path = "pdf" =>
      /\ Len(req[r].texts) <= Len(req[r].pages)
      /\ \A i \in 1 .. Len(req[r].texts) :
           req[r].texts[i] \in {Recognize(req[r].pages[i]), SENTINEL}
      /\ req[r].pc \in AfterRecognition => Len(req[r].texts) = Len(req[r].pages)

\* A document of several pages, all recognized, returned after a later
\* page of a batch settled before an earlier one.
C2_Witness ==
  \E r \in Reqs :
    /\ req[r].path = "pdf" /\ req[r].pc = "done" /\ req[r].ooo
    /\ Len(req[r].pages) >= 2 /\ req[r].F = {}

\* C3: on the PDF path with N pages and F the pages whose recognition call
\* failed, there are N page texts, entry i is the failure marker exactly
\* when page i is in F and is the page's recognized text otherwise, every
\* page's call has settled (none is cancelled), and no recognition failure
\* fails the request.
C3_FailureIsolation ==
  \A r \in Reqs :
    req[r].path = "pdf" =>
      /\ \A i \in 1 .. Len(req[r].texts) :
           /\ (req[r].texts[i] = SENTINEL) <=> (req[r].pages[i].src \in req[r].F)
           /\ req[r].pages[i].src \notin req[r].F =>
                /\ req[r].pages[i].src \in req[r].K
                /\ req[r].texts[i] = Recognize(req[r].pages[i])
      /\ req[r].pc \in AfterRecognition =>
           /\ Len(req[r].texts) = Len(req[r].pages)
           /\ req[r].F \cup req[r].K = Sources(req[r].pages)
           /\ req[r].F \cap req[r].K = {}
      /\ req[r].err \notin {"recognize", "engine"}
      /\ req[r].pc = "failed" => req[r].err = "font"

\* A three-page document whose second page alone failed, returned.
C3_Witness ==
  \E r \in Reqs :
    /\ req[r].path = "pdf" /\ req[r].pc = "done" /\ ~req[r].efail
    /\ Len(req[r].pages) = 3 /\ req[r].F = {2} /\ req[r].K = {1, 3}

\* C4: a failed engine construction is fatal to the convert call on every
\* path: a call that met it never returns a result.
C4_EngineFailureFatal ==
  \A r \in Reqs : req[r].efail => req[r].pc # "done"

\* C5: the font is loaded at most once per process, the preload included.
C5_FontLoadedOnce == fontLoads <= 1

\* C6, as claimed: the batch size is the configured value clamped to
\* [1, 5] (0 gives 1, 10 gives 5), and 3 when unset or not a number.
C6_BatchSizeClamped ==
  cfg # Unloaded =>
    cfg.batch2 = IF env.batch.k = "num" THEN Min(Max(env.batch.v, 2), 10) ELSE 6

\* C6, amended: a configured value that is no finite number or is not
\* positive gives the default 3; a positive one is clamped to [1, 5].
C6_BatchSize ==
  cfg # Unloaded =>
    LET b == env.batch
        positive == b.k = "num" /\ b.v > 0
    IN /\ cfg.batch2 \in 2 .. 10
       /\ ~positive => cfg.batch2 = 6
       /\ positive /\ b.v < 2 => cfg.batch2 = 2
       /\ positive /\ b.v > 10 => cfg.batch2 = 10
       /\ positive /\ b.v \in 2 .. 10 => cfg.batch2 = b.v

\* The module loaded with OCR_BATCH_SIZE=0.
C6_Witness == cfg # Unloaded /\ env.batch = NumEnv("num", 0)

\* C7, as claimed: the zero-page fallback returns a non-empty text.
C7_FallbackTextNonEmpty ==
  \A r \in Reqs :
    req[r].path = "fallback" /\ req[r].pc = "done" => req[r].out.text # <<>>

\* C7, amended: when rasterization gives no pages, convert makes one
\* recognition call on the raw input bytes and returns that call's trimmed
\* text, which is empty when the engine reads nothing off the input, with a
\* document of one page.
C7_Fallback ==
  \A r \in Reqs :
    /\ req[r].isPdf /\ req[r].pc \notin {"idle", "raster"} /\ req[r].pages = <<>>
         => req[r].path = "fallback"
    /\ req[r].path = "fallback" =>
         /\ req[r].isPdf /\ req[r].pages = <<>>
         /\ req[r].F \cup req[r].K \subseteq {req[r].doc[1]}
         /\ req[r].pc = "ocr1" =>
              Len(req[r].calls) = 1 /\ req[r].calls[1].img = RawImage(req[r].doc)
         /\ req[r].pc = "done" =>
              /\ req[r].out.text = Trim(RawText(req[r].doc[1]))
              /\ (req[r].out.text = <<>>) <=> IsBlankPage(req[r].doc[1])
              /\ Len(req[r].out.pdf.pages) = 1

\* A fallback that succeeded and returned the empty text.
C7_Witness ==
  \E r \in Reqs :
    /\ req[r].path = "fallback" /\ req[r].pc = "done"
    /\ req[r].K = {req[r].doc[1]} /\ req[r].out.text = <<>>

\* C8: a font load failure fails the whole convert call; a call that
\* returns always returns a document, on every path.
C8_FontFailureFatal ==
  \A r \in Reqs :
    /\ req[r].pc = "done" =>
         ~req[r].out.pdf.null /\ Len(req[r].out.pdf.pages) >= 1 /\ fontCache
    /\ req[r].err = "font" => req[r].pc = "failed"
    /\ req[r].pc # "done" => req[r].out = NoResult

\* Two calls failed by the font, one on the PDF path and one off it.
C8_Witness ==
  \E r, q \in Reqs :
    /\ req[r].pc = "failed" /\ req[r].err = "font" /\ req[r].path = "pdf"
    /\ req[q].pc = "failed" /\ req[q].err = "font" /\ req[q].path \in {"fallback", "image"}

Header(k) == <<"Page", " ", ToString(k)>>

C10_ImageBinarized ==
  \A r \in Reqs :
    req[r].path = "image" /\ IsAmharic(req[r].lang) =>
      \A k \in 1 .. Len(req[r].calls) : req[r].calls[k].img.bin

\* C11: when engine construction for a tag fails, every call that was
\* given that tag's promise receives the failure (none is left waiting and
\* none recognizes anything), and a request meets an engine failure only
\* through its own tag: the other tag's engine is constructed and used
\* as if nothing had failed.
C11_EngineFailureReported ==
  /\ \A t \in Tags :
       workerCache[t].st = "failed" =>
         \A r \in Reqs :
           req[r].lang = t =>
             /\ \A k \in 1 .. Len(req[r].calls) : req[r].calls[k].st = "fail"
             /\ req[r].got # {} => req[r].efail /\ req[r].K = {}
  /\ \A r \in Reqs :
       /\ req[r].efail => workerCache[req[r].lang].st = "failed"
       /\ req[r].err = "engine" => req[r].efail

\* The construction for one tag failed under a batch of several waiting
\* calls, all of which received the failure, while the other tag's engine
\* was constructed and recognized a page for the other request.
C11_Witness ==
  \E t, u \in Tags, r, q \in Reqs :
    /\ t # u /\ workerCache[t].st = "failed" /\ workerCache[u].st = "ready"
    /\ req[r].lang = t /\ req[r].efail /\ Cardinality(req[r].F) >= 2
    /\ req[q].lang = u /\ ~req[q].efail /\ req[q].K # {}

\* C12: on the image path and on the zero-page fallback path a failed
\* recognition call does not fail the request: the page text is the
\* failure marker and the request goes on to return a result.
C12_SinglePageFailureAbsorbed ==
  \A r \in Reqs :
    req[r].path \in {"image", "fallback"} /\ req[r].F # {} /\ ~req[r].efail =>
      /\ req[r].err # "recognize"
      /\ req[r].pc \in AfterRecognition =>
           req[r].pc # "failed" /\ req[r].texts = <<SENTINEL>>

\* C13: for an upload larger than 10 MB (10 * 1024 * 1024 bytes), or one
\* whose type is neither image/* nor application/pdf, POST never calls
\* convertToSearchablePdf and answers 413 or 415.
C13_RouteRejects ==
  LET f == route.file
      image == Len(f.type) >= 2 /\ f.type[1] = "image" /\ f.type[2] = "/"
      pdf == f.type = <<"application", "/", "pdf">>
  IN f.isFile /\ (f.size > 10485760 \/ (~image /\ ~pdf)) =>
       /\ route.called = 0
       /\ route.pc = "responded"
       /\ route.status \in {413, 415}

\* A PDF one byte over the ceiling, answered 413.
C13_Witness ==
  /\ route.pc = "responded" /\ route.status = 413 /\ route.called = 0
  /\ route.file = FileOf(MaxUploadBytes + 1, <<"application", "/", "pdf">>)

RECURSIVE CountOf(_, _)
CountOf(s, tok) ==
  IF s = <<>> THEN 0
  ELSE (IF Head(s) = tok THEN 1 ELSE 0) + CountOf(Tail(s), tok)

\* C14: a document of N pages that rasterizes without error gives exactly
\* min(N, 10) page images, those of pages 1 .. min(N, 10) in page order;
\* the result text then has min(N, 10) page blocks and the output
\* document min(N, 10) pages.
C14_PageCap ==
  \A r \in Reqs :
    req[r].path = "pdf" =>
      LET n == IF Len(req[r].doc) < 10 THEN Len(req[r].doc) ELSE 10
      IN /\ Len(req[r].pages) = n
         /\ \A k \in 1 .. n : req[r].pages[k].src = req[r].doc[k]
         /\ req[r].pc = "done" =>
              /\ CountOf(req[r].out.text, "Page") = n
              /\ Len(req[r].out.pdf.pages) = n

\* A document of more than ten pages, converted.
C14_Witness ==
  \E r \in Reqs :
    /\ req[r].path = "pdf" /\ req[r].pc = "done"
    /\ Len(req[r].doc) > 10 /\ Len(req[r].pages) = 10

InFlight(rq) == Cardinality({k \in 1 .. Len(rq.calls) : ~Settled(rq.calls[k])})

\* C18: at every moment at most batchSize recognition calls of a request
\* are in flight (cfg.batch2 is the batch size in half units), and the
\* calls of a batch exist only once every earlier page has its text, that
\* is once every call of the batches before it has settled.
C18_BoundedBatches ==
  \A r \in Reqs :
    /\ 2 * InFlight(req[r]) <= cfg.batch2
    /\ req[r].pc = "batch" =>
         /\ Len(req[r].texts) = SliceFrom(req[r].i2) - 1
         /\ \A k \in 1 .. Len(req[r].calls) :
              req[r].calls[k].img = req[r].pages[Len(req[r].texts) + k]

\* C19: the rasterizer hands convert either no page at all or every page
\* of the document up to the cap: when loading or rendering failed, the
\* pages rendered before the failure are discarded and convert goes on
\* with the fallback; no request fails in the rasterizer.
C19_AllOrNothing ==
  \A r \in Reqs :
    /\ req[r].isPdf /\ req[r].pc \notin {"idle", "raster"} =>
         \/ /\ req[r].path = "fallback" /\ req[r].pages = <<>>
         \/ /\ req[r].path = "pdf" /\ req[r].dropped = 0
            /\ Len(req[r].pages) = (IF Len(req[r].doc) < 10 THEN Len(req[r].doc) ELSE 10)
            /\ \A k \in 1 .. Len(req[r].pages) : req[r].pages[k].src = req[r].doc[k]
    /\ req[r].pc = "raster" => req[r].dropped = 0 /\ req[r].err = "none"
    /\ req[r].pc = "failed" => req[r].got # {}

\* Rendering failed after five or more pages had been rendered; convert
\* fell back to the raw bytes and returned.
C19_Witness ==
  \E r \in Reqs :
    /\ req[r].path = "fallback" /\ req[r].pc = "done"
    /\ req[r].dropped >= 5 /\ req[r].pages = <<>>

Letters == {"a", "b"}
SameLetters(s, t) == \A c \in Letters : CountOf(s, c) = CountOf(t, c)

\* C15: a page whose drawText throws gets the error placeholder, drawn in
\* red, and only that page: every other page carries its own text, and
\* the document has one page per input text.
C15_DrawFailureContained ==
  asm.pc = "done" =>
    /\ Len(asm.pages) = Len(asm.pageTexts)
    /\ \A k \in 1 .. Len(asm.pages) :
         LET page == asm.pages[k]
             bad == CountOf(asm.pageTexts[k], "BAD") > 0
         IN /\ page.threw <=> bad
            /\ page.threw =>
                 /\ page.color = "red"
                 /\ page.text = <<"[Error rendering text - possible unsupported characters]">>
            /\ ~page.threw =>
                 /\ page.color = "black" /\ page.text # <<>>
                 /\ SameLetters(page.text, asm.pageTexts[k])

\* Three pages of which the second alone could not be drawn.
C15_Witness ==
  /\ asm.pc = "done" /\ Len(asm.pages) = 3
  /\ asm.pages[2].threw /\ ~asm.pages[1].threw /\ ~asm.pages[3].threw
  /\ asm.pageTexts[1] = <<"a">> /\ asm.pageTexts[3] = <<"b">>

\* C16: buildSearchablePdf gives exactly one page per page text, the k-th
\* page being the one made from the k-th text.
C16_OnePagePerText ==
  asm.pc = "done" =>
    /\ Len(asm.pages) = Len(asm.pageTexts)
    /\ \A k \in 1 .. Len(asm.pageTexts) :
         k <= Len(asm.pages) /\ ~DrawThrows(asm.pageTexts[k]) =>
           SameLetters(asm.pages[k].text, asm.pageTexts[k])

\* Three texts, the first of them empty, assembled.
C16_Witness ==
  /\ asm.pc = "done" /\ Len(asm.pages) = 3
  /\ asm.pageTexts = <<<<>>, <<"a">>, <<"b">>>>

\* C17: cleaning keeps U+FFFD in the text for a complex-script (amh) tag
\* and drops it for every other tag.
C17_ReplacementCharKept ==
  asm.pc = "done" =>
    \A k \in 1 .. Len(asm.pages) :
      ~asm.pages[k].threw =>
        CountOf(asm.pages[k].text, "FFFD") =
          (IF asm.lang \in {"amh", "eng+amh"}
           THEN CountOf(asm.pageTexts[k], "FFFD") ELSE 0)

\* C20: the engine pool only grows: for every tag at most one
\* construction is ever started, and in every step a tag that has an
\* entry keeps that very entry (the same promise, no new construction),
\* and a settled entry keeps its outcome.
C20_PoolMonotonic ==
  /\ [](\A t \in Tags : created[t] <= 1)
  /\ [][\A t \in Tags :
          workerCache[t].st # "absent" =>
            /\ workerCache'[t].st # "absent"
            /\ workerCache'[t].h = workerCache[t].h
            /\ created'[t] = created[t]
            /\ workerCache[t].st \in {"ready", "failed"} =>
                 workerCache'[t].st = workerCache[t].st]_vars

\* A request has ended and another has since been given an engine promise
\* of the same tag, whose entry is the one made by the only construction;
\* the other tag's construction failed and its entry is still there.
C20_Witness ==
  \E t, u \in Tags :
    /\ t # u /\ created[t] = 1 /\ created[u] = 1
    /\ workerCache[t].st = "ready" /\ workerCache[u].st = "failed"
    /\ req[1].lang = u /\ req[1].pc \in {"done", "failed"} /\ req[1].efail
    /\ req[2].lang = t /\ req[2].pc = "done" /\ req[2].got = {workerCache[t].h}

\* C21: a convert call that asks for a tag whose engine construction has
\* already failed starts a fresh construction for the tag and is not
\* handed the earlier failure.
C21_RetryConstructs ==
  [][\A r \in Reqs :
       LET t == req'[r].lang
       IN req[r].got = {} /\ req'[r].got # {} /\ workerCache[t].st = "failed" =>
            /\ created'[t] = created[t] + 1
            /\ workerCache'[t].st = "pending"
            /\ ~req'[r].efail]_vars

\* C22: a failed pre-warm leaves the font cache empty until some call's
\* own load succeeds; a call is failed by the font only when the fetch it
\* started itself fails, and a call made after the failed pre-warm loads
\* the font again and can return a document.
C22_PrewarmNotRequired ==
  /\ [](preload = "failed" /\ fontCache => \E r \in Reqs : req[r].pc = "done")
  /\ [](\A r \in Reqs : req[r].pc = "done" => fontCache)
  /\ [][\A r \in Reqs :
          req[r].err # "font" /\ req'[r].err = "font" => req[r].pc = "font"]_vars
  /\ [][\A r \in Reqs :
          preload = "failed" /\ ~fontCache /\ req[r].pc = "build" /\ req'[r].pc # "build" =>
            req'[r].pc = "font" /\ fontLoads' = fontLoads + 1]_vars

\* The pre-warm failed, and both requests then fetched the font themselves
\* and returned a document.
C22_Witness ==
  /\ preload = "failed" /\ fontCache /\ fontLoads >= 2
  /\ \A r \in Reqs : req[r].pc = "done" /\ ~req[r].out.pdf.null

\* C23: a binarized page has the size of the rendered one; every pixel
\* has the same value in its three colour channels, 255 when its
\* luminance 0.299 R + 0.587 G + 0.114 B is at least the threshold and 0
\* otherwise, and keeps its alpha.
C23_Binarization ==
  canvas.pc = "pushed" /\ (canvas.lang = "amh" \/ cfg.binarize) =>
    /\ canvas.out.width = canvas.src.width /\ canvas.out.height = canvas.src.height
    /\ Len(canvas.out.data) = Len(canvas.src.data)
    /\ \A i \in 1 .. Len(canvas.src.data) :
         LET p == canvas.src.data[i]
             q == canvas.out.data[i]
             v == IF 2 * (299 * p.r + 587 * p.g + 114 * p.b) >= 1000 * canvas.threshold
                  THEN 255 ELSE 0
         IN q.r = v /\ q.g = v /\ q.b = v /\ q.a = p.a

\* C24: when every external call settles, a convert call that was made
\* returns a result or fails; each batch holds at least one page, the
\* batches follow one another through the pages without a gap or an
\* overlap, and at the end every page has been recognized once.
C24_Terminates ==
  /\ \A r \in Reqs : (req[r].pc # "idle") ~> (req[r].pc \in {"done", "failed"})
  /\ [](\A r \in Reqs :
          /\ req[r].pc = "batch" =>
               /\ Len(req[r].calls) >= 1
               /\ Len(req[r].texts) + Len(req[r].calls) <= Len(req[r].pages)
               /\ \A k \in 1 .. Len(req[r].calls) :
                    req[r].calls[k].img = req[r].pages[Len(req[r].texts) + k]
          /\ req[r].path = "pdf" /\ req[r].pc \in AfterRecognition =>
               /\ Len(req[r].texts) = Len(req[r].pages)
               /\ req[r].F \cup req[r].K = Sources(req[r].pages)
               /\ req[r].F \cap req[r].K = {})

\* A three-page document converted in batches of two and a half pages:
\* a recognition failed on the way and the call returned all the same.
C24_Witness ==
  /\ req[1].pc = "done" /\ req[1].path = "pdf" /\ Len(req[1].pages) = 3
  /\ cfg.batch2 = 5
  /\ req[1].F # {}

\* C25: the upload page has at most one request to /api/ocr in flight.
C25_SingleFlight == Cardinality(ui.pending) <= 1

\* C26: when the upload state carries a file, the displayed name is that
\* file's name, and in the done state the text is the result for that file.
C26_PreviewMatchesFile ==
  /\ ui.upload.status \in {"ready", "uploading", "done"} =>
       ui.previewName = ui.upload.file.name
  /\ ui.upload.status = "done" => ui.upload.text = ResultText(ui.upload.file)

====
